---- MODULE Spec2Model ----
(***************************************************************************)
(* Tour-data API client (src/lib/api/tour-api.ts): validation, credential  *)
(* lookup, query building, bounded retry with exponential backoff,         *)
(* envelope checking, item extraction and pagination derivation.           *)
(*                                                                         *)
(* Strings the code trims or tests for emptiness are sequences of          *)
(* one-character strings; an optional value is the empty set (absent) or   *)
(* a one-element set.                                                      *)
(***************************************************************************)
EXTENDS Integers, Sequences, FiniteSets, TLC

VARIABLES env, op, args, pc, attempt, lastError, fetches, waits, response,
          data, url, result,
          stats, route, view, button

vars == <<env, op, args, pc, attempt, lastError, fetches, waits, response,
          data, url, result, stats, route, view, button>>

\* the callers of the client: the statistics aggregation, the proxy route,
\* the list view and the bookmark button
callers == <<stats, route, view, button>>

----------------------------------------------------------------------------
(* Bounds of the model *)

\* longest identifier / keyword string drawn as an input
MaxStrLen == 2
\* longest body.items.item array the upstream sends
MaxItems == 2

\* searches the user makes in one session of the list view
MaxSearches == 2
\* highest page number the list view asks for
\* bookmark look-ups of BookmarkButton that may be in flight together
MaxChecks == 2

MaxPage == 5

----------------------------------------------------------------------------
(* Values *)

None == {}
Some(v) == {v}
Val(x) == CHOOSE v \in x : TRUE

\* variant: the loop runs once more (attempt <= maxRetries)
maxRetriesInclusive == 3 + 1

\* the retry ceiling: fetchWithRetry(url, maxRetries = 3)
maxRetries == 3

Chars == {" ", "1"}
Whitespace == {" "}

SeqsUpTo(S, n) == UNION {[1..k -> S] : k \in 0..n}

Strs == SeqsUpTo(Chars, MaxStrLen)
OptStrs == {None} \cup {Some(s) : s \in Strs}

\* JavaScript truthiness of an optional string: undefined and "" are falsy
TruthyStr(x) == x # None /\ Val(x) # <<>>
\* JavaScript truthiness of an optional number: undefined and 0 are falsy
TruthyNum(x) == x # None /\ Val(x) # 0

RECURSIVE trimStart(_)
trimStart(s) ==
    IF s = <<>> THEN s
    ELSE IF Head(s) \in Whitespace THEN trimStart(Tail(s)) ELSE s

RECURSIVE trimEnd(_)
trimEnd(s) ==
    IF s = <<>> THEN s
    ELSE IF s[Len(s)] \in Whitespace THEN trimEnd(SubSeq(s, 1, Len(s) - 1)) ELSE s

\* variant: only leading whitespace is removed (trimStart for trim)
trimLeadingOnly(s) == trimStart(s)

\* String.prototype.trim
trim(s) == trimEnd(trimStart(s))

RECURSIVE pow(_, _)
\* Math.pow on a non-negative integer exponent
pow(b, e) == IF e = 0 THEN 1 ELSE b * pow(b, e - 1)

Digit(d) ==
    CASE d = 0 -> "0" [] d = 1 -> "1" [] d = 2 -> "2" [] d = 3 -> "3"
      [] d = 4 -> "4" [] d = 5 -> "5" [] d = 6 -> "6" [] d = 7 -> "7"
      [] d = 8 -> "8" [] d = 9 -> "9"

RECURSIVE Digits(_)
Digits(n) == IF n < 10 THEN <<Digit(n)>> ELSE Digits(n \div 10) \o <<Digit(n % 10)>>

\* String(n) for an integer n
String(n) == IF n < 0 THEN <<"-">> \o Digits(-n) ELSE Digits(n)

\* variant: Math.floor in place of Math.ceil
floorDiv(a, b) == IF b > 0 THEN a \div b ELSE -((a + (-b) - 1) \div (-b))

\* Math.ceil(a / b) for a >= 0 and b # 0
ceilDiv(a, b) == IF b > 0 THEN (a + b - 1) \div b ELSE -(a \div (-b))

----------------------------------------------------------------------------
(* Errors *)

NoError == [name |-> "none", text |-> "", detail |-> <<>>,
            statusCode |-> None, apiErrorCode |-> None]

\* new TourApiError(message, statusCode?, apiErrorCode?)
TourApiError(text, detail, statusCode, apiErrorCode) ==
    [name |-> "TourApiError", text |-> text, detail |-> detail,
     statusCode |-> statusCode, apiErrorCode |-> apiErrorCode]

\* an Error that is not a TourApiError (fetch rejection, JSON syntax error,
\* property read on undefined)
OtherError(name, text) ==
    [name |-> name, text |-> text, detail |-> <<>>,
     statusCode |-> None, apiErrorCode |-> None]

NetworkError == OtherError("TypeError", "fetch failed")
JsonError == OtherError("SyntaxError", "Unexpected token in JSON")
UndefinedReadError == OtherError("TypeError", "Cannot read properties of undefined")

ConfigError ==
    TourApiError("TOUR_API_KEY or NEXT_PUBLIC_TOUR_API_KEY environment variable is not set",
                 <<>>, None, None)
ContentIdRequired == TourApiError("ContentId is required", <<>>, None, None)
ContentTypeIdRequired == TourApiError("ContentTypeId is required", <<>>, None, None)
KeywordRequired == TourApiError("Keyword is required", <<>>, None, None)

----------------------------------------------------------------------------
(* Upstream responses *)

Objs == {"o1", "o2"}
NoObj == "none"

\* body.items.item: absent, a single object, or an array of objects
ItemAbsent == [kind |-> "absent", obj |-> NoObj, objs |-> <<>>]
ItemSingle(o) == [kind |-> "single", obj |-> o, objs |-> <<>>]
ItemArray(s) == [kind |-> "array", obj |-> NoObj, objs |-> s]
ItemFields ==
    {ItemAbsent} \cup {ItemSingle(o) : o \in Objs}
                 \cup {ItemArray(s) : s \in SeqsUpTo(Objs, MaxItems)}

\* body.items: absent, the empty string the upstream sends for "no results",
\* or an object holding item
ItemsFields ==
    {[kind |-> "absent", item |-> ItemAbsent], [kind |-> "empty", item |-> ItemAbsent]}
        \cup {[kind |-> "object", item |-> i] : i \in ItemFields}

NoPage == [totalCount |-> None, numOfRows |-> None, pageNo |-> None]
PageFields ==
    {NoPage,
     [totalCount |-> Some(0), numOfRows |-> Some(2), pageNo |-> Some(1)],
     [totalCount |-> Some(3), numOfRows |-> Some(2), pageNo |-> Some(2)],
     [totalCount |-> Some(3), numOfRows |-> None, pageNo |-> Some(0)]}

Body(items, page) ==
    [items |-> items, totalCount |-> page.totalCount,
     numOfRows |-> page.numOfRows, pageNo |-> page.pageNo]

OneItem == [kind |-> "object", item |-> ItemSingle("o1")]

\* the bodies the upstream sends: every items shape, and every pagination header
Bodies ==
    {Body(i, NoPage) : i \in ItemsFields} \cup {Body(OneItem, p) : p \in PageFields}

SuccessCode == "0000"
ResultCodes == {SuccessCode, "SERVICE_ERROR", "03"}
ResultMsgs == {Some(<<>>), Some(<<"M">>)}

\* a parsed JSON document with the "response" key: { response: { header, body? } }
Envelope(code, msg, body) ==
    [shape |-> "envelope", resultCode |-> Some(code), resultMsg |-> msg, body |-> body]
\* a parsed JSON document without the "response" key
Flat(code, msg) ==
    [shape |-> "flat", resultCode |-> Some(code), resultMsg |-> msg, body |-> None]
\* a response body that is not JSON: response.json() rejects
BadJson == [shape |-> "badjson", resultCode |-> None, resultMsg |-> None, body |-> None]

SuccessEnvelopes ==
    {Envelope(SuccessCode, Some(<<"OK">>), Some(b)) : b \in Bodies}
        \cup {Envelope(SuccessCode, Some(<<"OK">>), None)}
ErrorEnvelopes ==
    {Envelope(code, msg, None) : code \in ResultCodes \ {SuccessCode}, msg \in ResultMsgs}
        \cup {Envelope("SERVICE_ERROR", Some(<<"M">>), Some(Body(OneItem, NoPage)))}
FlatDocs == {Flat("03", Some(<<"M">>))}

Payloads == SuccessEnvelopes \cup ErrorEnvelopes \cup FlatDocs \cup {BadJson}
\* the documents sent along with the other status codes
FewPayloads ==
    {Envelope(SuccessCode, Some(<<"OK">>), Some(Body(OneItem, NoPage))),
     Envelope("SERVICE_ERROR", Some(<<"M">>), None)}

Statuses == {200, 201, 404, 500}

\* fetch() rejected: no response at all
NetFail == [net |-> "error", status |-> 0, payload |-> BadJson]
Http(status, payload) == [net |-> "response", status |-> status, payload |-> payload]

Outcomes ==
    {NetFail} \cup {Http(200, p) : p \in Payloads}
              \cup {Http(s, p) : s \in Statuses \ {200}, p \in FewPayloads}

NoOutcome == [net |-> "none", status |-> 0, payload |-> BadJson]

----------------------------------------------------------------------------
(* fetchWithRetry: one attempt *)

\* Response.ok
ok(status) == status >= 200 /\ status <= 299

Resolved(d) == [ok |-> TRUE, data |-> d, error |-> NoError]
Thrown(e) == [ok |-> FALSE, data |-> BadJson, error |-> e]

\* data.response.header.resultMsg || "Unknown API error"
errorMsg(d) ==
    IF TruthyStr(d.resultMsg) THEN Val(d.resultMsg) ELSE <<"Unknown API error">>

\* variant: the application error is also given the response's status
tryAttemptStatusAlways(o) ==
    IF o.net = "error" THEN Thrown(NetworkError)
    ELSE IF ~ok(o.status)
        THEN Thrown(TourApiError("API request failed with status ",
                                 String(o.status), Some(o.status), None))
    ELSE IF o.payload.shape = "badjson" THEN Thrown(JsonError)
    ELSE IF o.payload.shape = "envelope" /\ o.payload.resultCode # Some(SuccessCode)
        THEN Thrown(TourApiError("API error: ", errorMsg(o.payload),
                                 Some(o.status), o.payload.resultCode))
    ELSE Resolved(o.payload)

\* variant: the envelope's resultCode is not looked at
tryAttemptNoResultCode(o) ==
    IF o.net = "error" THEN Thrown(NetworkError)
    ELSE IF ~ok(o.status)
        THEN Thrown(TourApiError("API request failed with status ",
                                 String(o.status), Some(o.status), None))
    ELSE IF o.payload.shape = "badjson" THEN Thrown(JsonError)
    ELSE Resolved(o.payload)

\* the try block of the retry loop, applied to what fetch() produced
tryAttempt(o) ==
    IF o.net = "error" THEN Thrown(NetworkError)
    ELSE IF ~ok(o.status)
        THEN Thrown(TourApiError("API request failed with status ",
                                 String(o.status), Some(o.status), None))
    ELSE IF o.payload.shape = "badjson" THEN Thrown(JsonError)
    ELSE IF o.payload.shape = "envelope" /\ o.payload.resultCode # Some(SuccessCode)
        THEN Thrown(TourApiError("API error: ", errorMsg(o.payload),
                                 None, o.payload.resultCode))
    ELSE Resolved(o.payload)

\* variant: the exponent counts the attempts from one: 2 s, then 4 s
backoffFromOne(a) == pow(2, a + 1) * 1000

\* variant: a fixed one-second wait
backoffFixed(a) == 1000

\* Math.pow(2, attempt) * 1000
backoffMs(a) == pow(2, a) * 1000

\* variant: lastError ??= error, the first error is kept
catchFirstError(prev, e) == IF prev = NoError THEN e ELSE prev

\* lastError = error instanceof Error ? error : new Error(String(error))
catchError(prev, e) == e

\* throw lastError || new TourApiError("API request failed after retries")
exhausted(last) ==
    IF last = NoError
        THEN TourApiError("API request failed after retries", <<>>, None, None)
        ELSE last

----------------------------------------------------------------------------
(* Response normalisation *)

\* response.response.body is read: a document without "response", or an
\* envelope without body, makes the read throw
readThrows(d) == d.shape # "envelope" \/ d.body = None

\* variant: an array is unwrapped to its first element
extractItemsFirstOnly(d) ==
    LET items == Val(d.body).items IN
    IF items.kind # "object" THEN <<>>
    ELSE IF items.item.kind = "absent" THEN <<>>
    ELSE IF items.item.kind = "array"
        THEN IF items.item.objs = <<>> THEN <<>> ELSE <<items.item.objs[1]>>
    ELSE <<items.item.obj>>

\* extractItems, on an envelope that has a body
extractItems(d) ==
    LET items == Val(d.body).items IN
    IF items.kind # "object" THEN <<>>
    ELSE IF items.item.kind = "absent" THEN <<>>
    ELSE IF items.item.kind = "array" THEN items.item.objs
    ELSE <<items.item.obj>>

\* variant: totalCount is read from the numOfRows field
extractPaginationInfoRowsAsTotal(d) ==
    LET body == Val(d.body) IN
    [totalCount |-> IF TruthyNum(body.numOfRows) THEN Val(body.numOfRows) ELSE 0,
     numOfRows |-> IF TruthyNum(body.numOfRows) THEN Val(body.numOfRows) ELSE 20,
     pageNo |-> IF TruthyNum(body.pageNo) THEN Val(body.pageNo) ELSE 1]

\* extractPaginationInfo, on an envelope that has a body
extractPaginationInfo(d) ==
    LET body == Val(d.body) IN
    [totalCount |-> IF TruthyNum(body.totalCount) THEN Val(body.totalCount) ELSE 0,
     numOfRows |-> IF TruthyNum(body.numOfRows) THEN Val(body.numOfRows) ELSE 20,
     pageNo |-> IF TruthyNum(body.pageNo) THEN Val(body.pageNo) ELSE 1]

----------------------------------------------------------------------------
(* Request building *)

\* variant: a missing key is not checked and goes out as "undefined"
getApiKeyUnchecked(e) ==
    IF TruthyStr(e.TOUR_API_KEY) THEN e.TOUR_API_KEY
    ELSE IF TruthyStr(e.NEXT_PUBLIC_TOUR_API_KEY) THEN e.NEXT_PUBLIC_TOUR_API_KEY
    ELSE Some(<<"undefined">>)

\* process.env.TOUR_API_KEY || process.env.NEXT_PUBLIC_TOUR_API_KEY;
\* None stands for the throw of the configuration error
getApiKey(e) ==
    IF TruthyStr(e.TOUR_API_KEY) THEN e.TOUR_API_KEY
    ELSE IF TruthyStr(e.NEXT_PUBLIC_TOUR_API_KEY) THEN e.NEXT_PUBLIC_TOUR_API_KEY
    ELSE None

NoCustom == [numOfRows |-> None, pageNo |-> None]

\* getCommonParams(customParams), when the key is set
getCommonParams(e, custom) ==
    LET base == [n \in {"serviceKey", "MobileOS", "MobileApp", "_type"} |->
                    CASE n = "serviceKey" -> Val(getApiKey(e))
                      [] n = "MobileOS" -> <<"ETC">>
                      [] n = "MobileApp" -> <<"MyTrip">>
                      [] n = "_type" -> <<"json">>]
        rows == IF TruthyNum(custom.numOfRows)
                    THEN [n \in {"numOfRows"} |-> String(Val(custom.numOfRows))]
                    ELSE <<>>
        page == IF TruthyNum(custom.pageNo)
                    THEN [n \in {"pageNo"} |-> String(Val(custom.pageNo))]
                    ELSE <<>>
    IN  page @@ rows @@ base

\* the optional filters of getAreaBasedList and searchKeyword
FilterNames == {"areaCode", "sigunguCode", "contentTypeId", "cat1", "cat2", "cat3",
                "arrange", "modifiedtime"}

\* variant: the test is params.x !== undefined, which lets "" through
filterParamsDefined(filters, names) ==
    [n \in {m \in names : filters[m] # None} |-> Val(filters[n])]

\* if (params.x) queryParams.x = params.x, for every optional filter
filterParams(filters, names) ==
    [n \in {m \in names : TruthyStr(filters[m])} |-> Val(filters[n])]

\* URLSearchParams serialisation of one value: a space is written "+"
urlEncode(s) == [i \in DOMAIN s |-> IF s[i] = " " THEN "+" ELSE s[i]]

\* `${BASE_URL}/${path}?${new URLSearchParams(params).toString()}`
makeUrl(path, params) ==
    [path |-> path, query |-> [n \in DOMAIN params |-> urlEncode(params[n])]]

\* variant: the input is not trimmed before the emptiness test
blankUntrimmed(x) == ~TruthyStr(x)

\* !x || x.trim() === ""
blank(x) == ~TruthyStr(x) \/ trim(Val(x)) = <<>>

Go(u) == [error |-> NoError, url |-> Some(u)]
Fail(e) == [error |-> e, url |-> None]

\* params.numOfRows || 20, params.pageNo || 1
rowsOf(a) == IF TruthyNum(a.numOfRows) THEN Val(a.numOfRows) ELSE 20
pageOf(a) == IF TruthyNum(a.pageNo) THEN Val(a.pageNo) ELSE 1

----------------------------------------------------------------------------
(* The operations up to their first fetch *)

getAreaCodeRequest(e, a) ==
    IF getApiKey(e) = None THEN Fail(ConfigError)
    ELSE Go(makeUrl("/areaCode2",
                    filterParams(a.filters, {"areaCode"}) @@ getCommonParams(e, NoCustom)))

getAreaBasedListRequest(e, a) ==
    IF getApiKey(e) = None THEN Fail(ConfigError)
    ELSE Go(makeUrl("/areaBasedList2",
                    filterParams(a.filters, FilterNames)
                        @@ getCommonParams(e, [numOfRows |-> Some(rowsOf(a)),
                                               pageNo |-> Some(pageOf(a))])))

searchKeywordRequest(e, a) ==
    IF blank(a.keyword) THEN Fail(KeywordRequired)
    ELSE IF getApiKey(e) = None THEN Fail(ConfigError)
    ELSE Go(makeUrl("/searchKeyword2",
                    filterParams(a.filters, FilterNames)
                        @@ ("keyword" :> trim(Val(a.keyword)))
                        @@ getCommonParams(e, [numOfRows |-> Some(rowsOf(a)),
                                               pageNo |-> Some(pageOf(a))])))

\* the shared opening of the four content-id operations
contentIdRequest(e, a, path) ==
    IF blank(a.contentId) THEN Fail(ContentIdRequired)
    ELSE IF getApiKey(e) = None THEN Fail(ConfigError)
    ELSE Go(makeUrl(path,
                    ("contentId" :> trim(Val(a.contentId))) @@ getCommonParams(e, NoCustom)))

getDetailCommonRequest(e, a) == contentIdRequest(e, a, "/detailCommon2")

getDetailIntroRequest(e, a) ==
    IF blank(a.contentId) THEN Fail(ContentIdRequired)
    ELSE IF blank(a.contentTypeId) THEN Fail(ContentTypeIdRequired)
    ELSE IF getApiKey(e) = None THEN Fail(ConfigError)
    ELSE Go(makeUrl("/detailIntro2",
                    ("contentTypeId" :> trim(Val(a.contentTypeId)))
                        @@ ("contentId" :> trim(Val(a.contentId)))
                        @@ getCommonParams(e, NoCustom)))

getDetailImageRequest(e, a) == contentIdRequest(e, a, "/detailImage2")

getDetailPetTourRequest(e, a) == contentIdRequest(e, a, "/detailPetTour2")

----------------------------------------------------------------------------
(* The operations after fetchWithRetry settles.  r is Resolved(data) when  *)
(* fetchWithRetry returned and Thrown(error) when it threw.                *)

NoValue == [tag |-> "none", items |-> <<>>, totalCount |-> 0, numOfRows |-> 0,
            pageNo |-> 0, totalPages |-> 0]
Null == [NoValue EXCEPT !.tag = "null"]
ItemValue(o) == [NoValue EXCEPT !.tag = "item", !.items = <<o>>]
ListValue(s) == [NoValue EXCEPT !.tag = "list", !.items = s]
PageValue(s, total, rows, page, pages) ==
    [tag |-> "page", items |-> s, totalCount |-> total, numOfRows |-> rows,
     pageNo |-> page, totalPages |-> pages]

Pending == [status |-> "pending", value |-> NoValue, error |-> NoError]
Returned(v) == [status |-> "returned", value |-> v, error |-> NoError]
Raised(e) == [status |-> "raised", value |-> NoValue, error |-> e]

getAreaCodeResult(a, r) ==
    IF ~r.ok THEN Raised(r.error)
    ELSE IF readThrows(r.data) THEN Raised(UndefinedReadError)
    ELSE Returned(ListValue(extractItems(r.data)))

\* the shared tail of getAreaBasedList and searchKeyword
pagedResult(a, r) ==
    IF ~r.ok THEN Raised(r.error)
    ELSE IF readThrows(r.data) THEN Raised(UndefinedReadError)
    ELSE LET pagination == extractPaginationInfo(r.data)
             totalPages == ceilDiv(pagination.totalCount, rowsOf(a))
         IN  Returned(PageValue(extractItems(r.data), pagination.totalCount,
                                rowsOf(a), pageOf(a), totalPages))

getAreaBasedListResult(a, r) == pagedResult(a, r)

searchKeywordResult(a, r) == pagedResult(a, r)

\* variant: no item is answered with null, as getDetailPetTour does
getDetailCommonNullable(a, r) ==
    IF ~r.ok THEN Raised(r.error)
    ELSE IF readThrows(r.data) THEN Raised(UndefinedReadError)
    ELSE IF Len(extractItems(r.data)) = 0 THEN Returned(Null)
    ELSE Returned(ItemValue(extractItems(r.data)[1]))

getDetailCommonResult(a, r) ==
    IF ~r.ok THEN Raised(r.error)
    ELSE IF readThrows(r.data) THEN Raised(UndefinedReadError)
    ELSE IF Len(extractItems(r.data)) = 0
        THEN Raised(TourApiError("Tour detail not found for contentId: ",
                                 Val(a.contentId), None, None))
    ELSE Returned(ItemValue(extractItems(r.data)[1]))

getDetailIntroResult(a, r) ==
    IF ~r.ok THEN Raised(r.error)
    ELSE IF readThrows(r.data) THEN Raised(UndefinedReadError)
    ELSE IF Len(extractItems(r.data)) = 0
        THEN Raised(TourApiError("Tour intro not found for contentId: ",
                                 Val(a.contentId) \o <<", contentTypeId: ">>
                                     \o Val(a.contentTypeId), None, None))
    ELSE Returned(ItemValue(extractItems(r.data)[1]))

\* variant: no image is a not-found failure, as in getDetailCommon
getDetailImageStrict(a, r) ==
    IF ~r.ok THEN Raised(r.error)
    ELSE IF readThrows(r.data) THEN Raised(UndefinedReadError)
    ELSE IF Len(extractItems(r.data)) = 0
        THEN Raised(TourApiError("Tour detail not found for contentId: ",
                                 Val(a.contentId), None, None))
    ELSE Returned(ListValue(extractItems(r.data)))

getDetailImageResult(a, r) ==
    IF ~r.ok THEN Raised(r.error)
    ELSE IF readThrows(r.data) THEN Raised(UndefinedReadError)
    ELSE Returned(ListValue(extractItems(r.data)))

\* variant: the code is looked for in the statusCode field, which an
\* application error does not carry
suppressedByStatus(error) ==
    error.name = "TourApiError" /\ error.statusCode # None /\ error.apiErrorCode # None

\* variant: every application error is suppressed, whatever its code
suppressedAnyCode(error) ==
    error.name = "TourApiError" /\ error.apiErrorCode # None

\* error instanceof TourApiError && error.apiErrorCode === "SERVICE_ERROR"
suppressed(error) ==
    error.name = "TourApiError" /\ error.apiErrorCode = Some("SERVICE_ERROR")

getDetailPetTourResult(a, r) ==
    IF r.ok /\ ~readThrows(r.data)
        THEN IF Len(extractItems(r.data)) = 0 THEN Returned(Null)
             ELSE Returned(ItemValue(extractItems(r.data)[1]))
    ELSE LET error == IF r.ok THEN UndefinedReadError ELSE r.error IN
         IF suppressed(error) THEN Returned(Null) ELSE Raised(error)

Ops == {"getAreaCode", "getAreaBasedList", "searchKeyword", "getDetailCommon",
        "getDetailIntro", "getDetailImage", "getDetailPetTour"}

requestOf(o, e, a) ==
    CASE o = "getAreaCode" -> getAreaCodeRequest(e, a)
      [] o = "getAreaBasedList" -> getAreaBasedListRequest(e, a)
      [] o = "searchKeyword" -> searchKeywordRequest(e, a)
      [] o = "getDetailCommon" -> getDetailCommonRequest(e, a)
      [] o = "getDetailIntro" -> getDetailIntroRequest(e, a)
      [] o = "getDetailImage" -> getDetailImageRequest(e, a)
      [] o = "getDetailPetTour" -> getDetailPetTourRequest(e, a)

resultOf(o, a, r) ==
    CASE o = "getAreaCode" -> getAreaCodeResult(a, r)
      [] o = "getAreaBasedList" -> getAreaBasedListResult(a, r)
      [] o = "searchKeyword" -> searchKeywordResult(a, r)
      [] o = "getDetailCommon" -> getDetailCommonResult(a, r)
      [] o = "getDetailIntro" -> getDetailIntroResult(a, r)
      [] o = "getDetailImage" -> getDetailImageResult(a, r)
      [] o = "getDetailPetTour" -> getDetailPetTourResult(a, r)

----------------------------------------------------------------------------
(* Inputs *)

KeyVals == {None, Some(<<>>), Some(<<"k", "1">>)}
PublicKeyVals == {None, Some(<<"k", "2">>)}
EnvVals == [TOUR_API_KEY : KeyVals, NEXT_PUBLIC_TOUR_API_KEY : PublicKeyVals]

NoFilters == [n \in FilterNames |-> None]
FilterVals == {Some(<<>>), Some(<<" ">>), Some(<<"1">>)}
\* at most one optional filter is given
OneFilter(names) ==
    {NoFilters} \cup {[NoFilters EXCEPT ![n] = v] : n \in names, v \in FilterVals}

RowsVals == {None, Some(0), Some(2), Some(-1)}
PageVals == {None, Some(2)}

NoArgs == [contentId |-> None, contentTypeId |-> None, keyword |-> None,
           numOfRows |-> None, pageNo |-> None, filters |-> NoFilters]

\* the paged operations are called with the filters varied under the default
\* paging, or with the paging varied and no filter
PagedArgs(base, names) ==
    {[base EXCEPT !.filters = f] : f \in OneFilter(names)}
        \cup {[base EXCEPT !.numOfRows = n, !.pageNo = p] : n \in RowsVals, p \in PageVals}

ArgsFor(o) ==
    CASE o = "getAreaCode" ->
            {[NoArgs EXCEPT !.filters = [NoFilters EXCEPT !["areaCode"] = s]] : s \in OptStrs}
      [] o = "getAreaBasedList" -> PagedArgs(NoArgs, FilterNames)
      [] o = "searchKeyword" ->
            {[NoArgs EXCEPT !.keyword = k] : k \in OptStrs}
                \cup PagedArgs([NoArgs EXCEPT !.keyword = Some(<<"1">>)], {"areaCode"})
      [] o = "getDetailIntro" ->
            {[NoArgs EXCEPT !.contentId = i, !.contentTypeId = t] :
                i \in OptStrs, t \in OptStrs}
      [] OTHER ->
            {[NoArgs EXCEPT !.contentId = i] : i \in OptStrs}

----------------------------------------------------------------------------
(* The callers of the client, before they run *)

\* getRegionStats: not called
NoStats == [state |-> "idle", values |-> <<>>, value |-> <<>>, error |-> NoError]

\* the query parameters of a request to GET /api/tour that the handler reads
NoParams == [keyword |-> None, contentId |-> None, contentTypeId |-> None,
             areaCode |-> None]

\* GET /api/tour: no request
NoRoute == [state |-> "idle", endpoint |-> None, params |-> NoParams,
            status |-> 0, success |-> "none"]

\* TourMapView: not mounted
NoView == [state |-> "idle", q |-> 0, totals |-> <<>>, initialPageNo |-> 0,
           tours |-> <<>>, currentPage |-> 0, isLoading |-> FALSE,
           isIntersecting |-> FALSE, requests |-> <<>>]

\* BookmarkButton: not mounted
NoButton == [state |-> "idle", isLoaded |-> FALSE, userId |-> None,
             isBookmarked |-> FALSE, isLoading |-> FALSE, isToggling |-> FALSE,
             checks |-> 0, toggles |-> <<>>, settled |-> "none",
             signIn |-> FALSE, stored |-> FALSE]

NoCaller ==
    /\ stats = NoStats
    /\ route = NoRoute
    /\ view = NoView
    /\ button = NoButton

----------------------------------------------------------------------------
(* The state machine.  Every variable but env is a function of the calls   *)
(* in progress; a call is one invocation of an operation.                  *)

Calls == DOMAIN pc

\* a call that has not run yet
Fresh(cs) ==
    /\ pc = [c \in cs |-> "start"]
    /\ attempt = [c \in cs |-> 0]
    /\ lastError = [c \in cs |-> NoError]
    /\ fetches = [c \in cs |-> 0]
    /\ waits = [c \in cs |-> <<>>]
    /\ response = [c \in cs |-> NoOutcome]
    /\ data = [c \in cs |-> None]
    /\ url = [c \in cs |-> None]
    /\ result = [c \in cs |-> Pending]

Init ==
    /\ env \in EnvVals
    /\ \E o \in Ops : \E a \in ArgsFor(o) :
          /\ op = [c \in {"c1"} |-> o]
          /\ args = [c \in {"c1"} |-> a]
    /\ Fresh({"c1"})
    /\ NoCaller

\* variant: the outcome is kept in one slot shared by all the calls in flight
SettleShared(c, res) ==
    /\ result' = [d \in DOMAIN result |-> res]
    /\ pc' = [d \in DOMAIN pc |-> res.status]

\* the operation settles: it returned a value or raised
Settle(c, res) ==
    /\ result' = [result EXCEPT ![c] = res]
    /\ pc' = [pc EXCEPT ![c] = res.status]

\* the operation runs from its entry to its first await: validation,
\* credential lookup, URL, and the fetch of attempt 0
Enter(c, req) ==
    /\ pc[c] = "start"
    /\ IF req.error # NoError
          THEN /\ Settle(c, Raised(req.error))
               /\ UNCHANGED <<url, fetches>>
          ELSE /\ url' = [url EXCEPT ![c] = req.url]
               /\ fetches' = [fetches EXCEPT ![c] = 1]
               /\ pc' = [pc EXCEPT ![c] = "fetching"]
               /\ UNCHANGED result
    /\ UNCHANGED <<env, op, args, attempt, lastError, waits, response, data>>
    /\ UNCHANGED callers

getAreaCode(c) ==
    op[c] = "getAreaCode" /\ Enter(c, getAreaCodeRequest(env, args[c]))

getAreaBasedList(c) ==
    op[c] = "getAreaBasedList" /\ Enter(c, getAreaBasedListRequest(env, args[c]))

searchKeyword(c) ==
    op[c] = "searchKeyword" /\ Enter(c, searchKeywordRequest(env, args[c]))

getDetailCommon(c) ==
    op[c] = "getDetailCommon" /\ Enter(c, getDetailCommonRequest(env, args[c]))

getDetailIntro(c) ==
    op[c] = "getDetailIntro" /\ Enter(c, getDetailIntroRequest(env, args[c]))

getDetailImage(c) ==
    op[c] = "getDetailImage" /\ Enter(c, getDetailImageRequest(env, args[c]))

getDetailPetTour(c) ==
    op[c] = "getDetailPetTour" /\ Enter(c, getDetailPetTourRequest(env, args[c]))

\* variant: the not-found error is thrown inside the retry loop, and so is
\* caught and retried like a failed attempt
fetchSettlesRetryingNotFound(c, o) ==
    /\ pc[c] = "fetching"
    /\ response' = [response EXCEPT ![c] = o]
    /\ LET first == tryAttempt(o)
           found == resultOf(op[c], args[c], first)
           r == IF first.ok /\ found.status = "raised"
                    /\ op[c] \in {"getDetailCommon", "getDetailIntro"}
                   THEN Thrown(found.error) ELSE first
       IN
       IF r.ok
          THEN /\ data' = [data EXCEPT ![c] = Some(r.data)]
               /\ Settle(c, resultOf(op[c], args[c], r))
               /\ UNCHANGED <<attempt, lastError, waits>>
          ELSE LET last == catchError(lastError[c], r.error) IN
               /\ lastError' = [lastError EXCEPT ![c] = last]
               /\ IF attempt[c] < maxRetries - 1
                     THEN /\ waits' = [waits EXCEPT ![c] = Append(@, backoffMs(attempt[c]))]
                          /\ pc' = [pc EXCEPT ![c] = "sleeping"]
                          /\ UNCHANGED <<attempt, result>>
                     ELSE /\ attempt' = [attempt EXCEPT ![c] = @ + 1]
                          /\ Settle(c, resultOf(op[c], args[c], Thrown(exhausted(last))))
                          /\ UNCHANGED waits
               /\ UNCHANGED data
    /\ UNCHANGED <<env, op, args, fetches, url>>
    /\ UNCHANGED callers

\* the fetch of the current attempt completes with outcome o: the rest of
\* the loop body runs, and, when fetchWithRetry returns or throws, the rest
\* of the operation
fetchSettles(c, o) ==
    /\ pc[c] = "fetching"
    /\ response' = [response EXCEPT ![c] = o]
    /\ LET r == tryAttempt(o) IN
       IF r.ok
          THEN /\ data' = [data EXCEPT ![c] = Some(r.data)]
               /\ Settle(c, resultOf(op[c], args[c], r))
               /\ UNCHANGED <<attempt, lastError, waits>>
          ELSE LET last == catchError(lastError[c], r.error) IN
               /\ lastError' = [lastError EXCEPT ![c] = last]
               /\ IF attempt[c] < maxRetries - 1
                     THEN /\ waits' = [waits EXCEPT ![c] = Append(@, backoffMs(attempt[c]))]
                          /\ pc' = [pc EXCEPT ![c] = "sleeping"]
                          /\ UNCHANGED <<attempt, result>>
                     ELSE /\ attempt' = [attempt EXCEPT ![c] = @ + 1]
                          /\ Settle(c, resultOf(op[c], args[c], Thrown(exhausted(last))))
                          /\ UNCHANGED waits
               /\ UNCHANGED data
    /\ UNCHANGED <<env, op, args, fetches, url>>
    /\ UNCHANGED callers

\* variant: the sleep promise is never resolved, the timer callback does nothing
sleepNeverResolves(c) ==
    /\ pc[c] = "sleeping"
    /\ pc[c] = "resolved"
    /\ UNCHANGED vars

\* the backoff timer fires: continue, attempt++, and the next fetch
sleepDone(c) ==
    /\ pc[c] = "sleeping"
    /\ attempt' = [attempt EXCEPT ![c] = @ + 1]
    /\ fetches' = [fetches EXCEPT ![c] = @ + 1]
    /\ pc' = [pc EXCEPT ![c] = "fetching"]
    /\ UNCHANGED <<env, op, args, lastError, waits, response, data, url, result>>
    /\ UNCHANGED callers

Next ==
    \/ \E c \in Calls : getAreaCode(c)
    \/ \E c \in Calls : getAreaBasedList(c)
    \/ \E c \in Calls : searchKeyword(c)
    \/ \E c \in Calls : getDetailCommon(c)
    \/ \E c \in Calls : getDetailIntro(c)
    \/ \E c \in Calls : getDetailImage(c)
    \/ \E c \in Calls : getDetailPetTour(c)
    \/ \E c \in Calls : \E o \in Outcomes : fetchSettles(c, o)
    \/ \E c \in Calls : sleepDone(c)

Spec == Init /\ [][Next]_vars

----------------------------------------------------------------------------
(* Properties *)

Settled(c) == pc[c] \in {"returned", "raised"}

\* the call issued requests and fetchWithRetry never returned a document:
\* every attempt it made failed, and it has settled
AllFailed(c) == Settled(c) /\ url[c] # None /\ data[c] = None

\* the three failure kinds of the retry policy, read off the outcome itself
IsNetworkFailure(o) == o.net = "error"
IsHttpFailure(o) == o.net = "response" /\ (o.status < 200 \/ o.status > 299)
IsEnvelopeFailure(o) ==
    /\ o.net = "response"
    /\ o.payload.shape = "envelope"
    /\ o.payload.resultCode # {"0000"}

\* a required input that is missing, empty, or made of whitespace only
IsBlank(x) == x = {} \/ \A i \in DOMAIN Val(x) : Val(x)[i] = " "

RECURSIVE SumSeq(_)
SumSeq(s) == IF s = <<>> THEN 0 ELSE Head(s) + SumSeq(Tail(s))

\* C1: a call never makes more than 3 HTTP attempts, and a call whose
\* attempts all failed has made exactly 3 when it settles.
C1_AttemptBound ==
    \A c \in Calls :
        /\ fetches[c] <= 3
        /\ AllFailed(c) => fetches[c] = 3

C1_Witness ==
    \E c \in Calls : AllFailed(c) /\ pc[c] = "raised" /\ fetches[c] = 3

C3_OnlySentinelSucceeds ==
    \A c \in Calls :
        data[c] # None =>
            /\ response[c].net = "response"
            /\ response[c].status >= 200 /\ response[c].status <= 299
            /\ Val(data[c]).shape = "envelope"
            /\ Val(data[c]).resultCode = {"0000"}

\* C4: an attempt before the third that ends in a network failure, a
\* non-2xx status or an envelope whose resultCode is not "0000" does not
\* settle the call: the call waits, and the only step it takes from the
\* wait is the next attempt.
C4_FailureRetries ==
    [][\A c \in Calls :
          /\ ( /\ pc[c] = "fetching" /\ pc'[c] # "fetching"
               /\ fetches[c] < 3
               /\ \/ IsNetworkFailure(response'[c])
                  \/ IsHttpFailure(response'[c])
                  \/ IsEnvelopeFailure(response'[c]) )
             => pc'[c] = "sleeping" /\ result'[c].status = "pending"
          /\ (pc[c] = "sleeping" /\ pc'[c] # "sleeping")
             => pc'[c] = "fetching" /\ fetches'[c] = fetches[c] + 1
       ]_vars

C4_Witness ==
    \E c \in Calls :
        /\ pc[c] = "fetching" /\ fetches[c] = 3
        /\ IsEnvelopeFailure(response[c]) /\ ~IsHttpFailure(response[c])

\* C5: when every attempt of a call failed and the operation raises, the
\* error raised is the error of the last attempt.
C5_LastErrorRaised ==
    \A c \in Calls :
        (AllFailed(c) /\ pc[c] = "raised") =>
            /\ result[c].error = tryAttempt(response[c]).error
            /\ lastError[c] = result[c].error

C5_Witness ==
    \E c \in Calls :
        AllFailed(c) /\ pc[c] = "raised" /\ IsHttpFailure(response[c])

\* C6: a content-id operation, getDetailIntro or searchKeyword called with
\* a required input missing, empty or blank raises the invalid-argument
\* error without any HTTP attempt or wait.
C6_InvalidArgument ==
    \A c \in Calls :
        LET a == args[c]
            idBlank == /\ op[c] \in {"getDetailCommon", "getDetailIntro",
                                     "getDetailImage", "getDetailPetTour"}
                       /\ IsBlank(a.contentId)
            typeBlank == op[c] = "getDetailIntro" /\ IsBlank(a.contentTypeId)
            keywordBlank == op[c] = "searchKeyword" /\ IsBlank(a.keyword)
        IN  (pc[c] # "start" /\ (idBlank \/ typeBlank \/ keywordBlank)) =>
                /\ pc[c] = "raised"
                /\ result[c].error.name = "TourApiError"
                /\ result[c].error.text =
                       (IF keywordBlank THEN "Keyword is required"
                        ELSE IF idBlank THEN "ContentId is required"
                        ELSE "ContentTypeId is required")
                /\ fetches[c] = 0 /\ waits[c] = <<>> /\ url[c] = {}

C6_Witness ==
    \E c \in Calls :
        /\ op[c] = "getDetailIntro" /\ pc[c] = "raised"
        /\ ~IsBlank(args[c].contentId)
        /\ args[c].contentTypeId = {<<" ", " ">>}
        /\ fetches[c] = 0

\* C7: with no service key configured, every operation called with valid
\* inputs raises the configuration error without any HTTP attempt or wait.
C7_ConfigurationError ==
    \A c \in Calls :
        LET a == args[c]
            valid == /\ op[c] \in {"getDetailCommon", "getDetailIntro", "getDetailImage",
                                   "getDetailPetTour"} => ~IsBlank(a.contentId)
                     /\ op[c] = "getDetailIntro" => ~IsBlank(a.contentTypeId)
                     /\ op[c] = "searchKeyword" => ~IsBlank(a.keyword)
            noKey == /\ env.TOUR_API_KEY \in {{}, {<<>>}}
                     /\ env.NEXT_PUBLIC_TOUR_API_KEY \in {{}, {<<>>}}
        IN  (pc[c] # "start" /\ valid /\ noKey) =>
                /\ pc[c] = "raised"
                /\ result[c].error.name = "TourApiError"
                /\ result[c].error.text =
                       "TOUR_API_KEY or NEXT_PUBLIC_TOUR_API_KEY environment variable is not set"
                /\ fetches[c] = 0 /\ waits[c] = <<>> /\ url[c] = {}

C7_Witness ==
    \E c \in Calls :
        /\ op[c] = "getDetailPetTour" /\ pc[c] = "raised"
        /\ ~IsBlank(args[c].contentId)
        /\ env.TOUR_API_KEY = {} /\ env.NEXT_PUBLIC_TOUR_API_KEY = {}
        /\ result[c].error.text =
               "TOUR_API_KEY or NEXT_PUBLIC_TOUR_API_KEY environment variable is not set"

\* the items field of the document a call received, when it has a body
ItemsOf(c) == Val(Val(data[c]).body).items
HasBody(c) == data[c] # {} /\ Val(data[c]).shape = "envelope" /\ Val(data[c]).body # {}

\* C8: the sequence an operation returns holds the objects of
\* body.items.item: none when it is absent, the one object when it is a
\* single object, and the same objects in the same order when it is an array.
C8_ExtractItems ==
    \A c \in Calls :
        (HasBody(c) /\ pc[c] = "returned"
            /\ op[c] \in {"getAreaCode", "getDetailImage", "getAreaBasedList", "searchKeyword"}) =>
            LET items == ItemsOf(c)
                got == result[c].value.items
            IN  /\ items.kind # "object" => got = <<>>
                /\ (items.kind = "object" /\ items.item.kind = "absent") => got = <<>>
                /\ (items.kind = "object" /\ items.item.kind = "single") =>
                       Len(got) = 1 /\ got[1] = items.item.obj
                /\ (items.kind = "object" /\ items.item.kind = "array") =>
                       /\ Len(got) = Len(items.item.objs)
                       /\ \A i \in DOMAIN got : got[i] = items.item.objs[i]

C8_Witness ==
    \E c \in Calls :
        /\ HasBody(c) /\ pc[c] = "returned" /\ op[c] = "getDetailImage"
        /\ ItemsOf(c).kind = "object" /\ ItemsOf(c).item.kind = "array"
        /\ result[c].value.items = <<"o2", "o1">>

\* the document holds no item at all
ZeroItems(c) ==
    \/ ItemsOf(c).kind # "object"
    \/ ItemsOf(c).item.kind = "absent"
    \/ ItemsOf(c).item.kind = "array" /\ ItemsOf(c).item.objs = <<>>

\* C9: on a successful envelope with zero items getDetailPetTour returns
\* the absent value, and getDetailCommon and getDetailIntro raise the
\* not-found error.
C9_ZeroItems ==
    \A c \in Calls :
        (HasBody(c) /\ ZeroItems(c)) =>
            /\ op[c] = "getDetailPetTour" =>
                   pc[c] = "returned" /\ result[c].value.tag = "null"
            /\ op[c] = "getDetailCommon" =>
                   /\ pc[c] = "raised"
                   /\ result[c].error.text = "Tour detail not found for contentId: "
            /\ op[c] = "getDetailIntro" =>
                   /\ pc[c] = "raised"
                   /\ result[c].error.text = "Tour intro not found for contentId: "

C9_Witness ==
    \E c \in Calls :
        /\ HasBody(c) /\ ZeroItems(c)
        /\ op[c] = "getDetailPetTour" /\ result[c].value.tag = "null"

\* C10: getDetailPetTour, called with a valid content id and a key, returns
\* the absent value when its attempts are exhausted on an application error
\* coded SERVICE_ERROR.
C10_PetServiceError ==
    \A c \in Calls :
        ( /\ op[c] = "getDetailPetTour"
          /\ AllFailed(c)
          /\ response[c].net = "response"
          /\ response[c].status >= 200 /\ response[c].status <= 299
          /\ response[c].payload.shape = "envelope"
          /\ response[c].payload.resultCode = {"SERVICE_ERROR"} ) =>
            /\ pc[c] = "returned"
            /\ result[c].value.tag = "null"
            /\ result[c].error.name = "none"

C10_Witness ==
    \E c \in Calls :
        /\ op[c] = "getDetailPetTour" /\ AllFailed(c) /\ fetches[c] = 3
        /\ response[c].payload.resultCode = {"SERVICE_ERROR"}
        /\ pc[c] = "returned" /\ result[c].value.tag = "null"

\* the last outcome a call received is a 2xx envelope coded SERVICE_ERROR
EndsOnServiceError(c) ==
    /\ response[c].net = "response"
    /\ response[c].status >= 200 /\ response[c].status <= 299
    /\ response[c].payload.shape = "envelope"
    /\ response[c].payload.resultCode = {"SERVICE_ERROR"}

----------------------------------------------------------------------------
(* Pagination: the two paged operations, called with every paging request  *)
(* against every pagination header                                         *)

PagingRows == {None, Some(0), Some(-1), Some(1), Some(2), Some(20)}
PagingPages == {None, Some(0), Some(1), Some(3)}

PagingFields ==
    [totalCount : {None, Some(0), Some(3), Some(37), Some(45)},
     numOfRows : {None, Some(2), Some(20)},
     pageNo : {None, Some(1), Some(3)}]

PagingOutcomes ==
    {NetFail, Http(500, BadJson), Http(200, Envelope("03", Some(<<"M">>), None))}
        \cup {Http(200, Envelope(SuccessCode, Some(<<"OK">>), Some(Body(i, p)))) :
                 i \in {OneItem, [kind |-> "absent", item |-> ItemAbsent]},
                 p \in PagingFields}

PagingEnv == [TOUR_API_KEY |-> Some(<<"k", "1">>), NEXT_PUBLIC_TOUR_API_KEY |-> None]

InitPaging ==
    /\ env = PagingEnv
    /\ \E o \in {"getAreaBasedList", "searchKeyword"} :
       \E n \in PagingRows : \E p \in PagingPages :
          /\ op = [c \in {"c1"} |-> o]
          /\ args = [c \in {"c1"} |->
                        [NoArgs EXCEPT !.keyword = IF o = "searchKeyword"
                                                      THEN Some(<<"1">>) ELSE None,
                                       !.numOfRows = n, !.pageNo = p]]
    /\ Fresh({"c1"})
    /\ NoCaller

NextPaging ==
    \/ \E c \in Calls : getAreaBasedList(c)
    \/ \E c \in Calls : searchKeyword(c)
    \/ \E c \in Calls : \E o \in PagingOutcomes : fetchSettles(c, o)
    \/ \E c \in Calls : sleepDone(c)

SpecPaging == InitPaging /\ [][NextPaging]_vars

\* a paged operation returned its result
ReturnedPage(c) ==
    pc[c] = "returned" /\ op[c] \in {"getAreaBasedList", "searchKeyword"}

\* p is the least integer not below a / b, for b # 0
IsCeilOf(p, a, b) ==
    IF b > 0 THEN p * b >= a /\ (p - 1) * b < a
             ELSE p * b <= a /\ (p - 1) * b > a

\* C12: in a paged result totalPages is ceil(totalCount / numOfRows) of the
\* result's own fields: 45 and 20 give 3, 37 and 20 give 2.
C12_TotalPages ==
    \A c \in Calls :
        ReturnedPage(c) =>
            LET v == result[c].value IN
            /\ v.numOfRows # 0
            /\ IsCeilOf(v.totalPages, v.totalCount, v.numOfRows)
            /\ (v.totalCount = 45 /\ v.numOfRows = 20) => v.totalPages = 3
            /\ (v.totalCount = 37 /\ v.numOfRows = 20) => v.totalPages = 2

C12_Witness ==
    \E c \in Calls :
        /\ ReturnedPage(c)
        /\ result[c].value.totalCount = 45 /\ result[c].value.numOfRows = 20
        /\ result[c].value.totalPages = 3
        /\ Val(Val(data[c]).body).numOfRows = {2}

\* C13: the numOfRows and pageNo of a paged result are the envelope
\* body's, 20 and 1 when the envelope omits them.
C13_PagingFromEnvelope ==
    \A c \in Calls :
        ReturnedPage(c) =>
            LET body == Val(Val(data[c]).body)
                v == result[c].value
            IN  /\ v.numOfRows = (IF body.numOfRows = {} THEN 20 ELSE Val(body.numOfRows))
                /\ v.pageNo = (IF body.pageNo = {} THEN 1 ELSE Val(body.pageNo))

\* C14: the totalCount of a paged result is the envelope body's, 0 when
\* the envelope omits it.
C14_TotalCount ==
    \A c \in Calls :
        ReturnedPage(c) =>
            LET body == Val(Val(data[c]).body) IN
            result[c].value.totalCount =
                (IF body.totalCount = {} THEN 0 ELSE Val(body.totalCount))

C14_Witness ==
    \E c \in Calls :
        /\ ReturnedPage(c) /\ op[c] = "searchKeyword"
        /\ Val(Val(data[c]).body).totalCount = {37}
        /\ Val(Val(data[c]).body).numOfRows = {2}
        /\ result[c].value.totalCount = 37

\* C15: a list operation that received a successful envelope whose body
\* has no items, or items without item, returns the empty sequence.
C15_EmptyList ==
    \A c \in Calls :
        ( /\ HasBody(c)
          /\ op[c] \in {"getDetailImage", "getAreaCode", "getAreaBasedList", "searchKeyword"}
          /\ \/ ItemsOf(c).kind = "absent"
             \/ ItemsOf(c).kind = "object" /\ ItemsOf(c).item.kind = "absent" ) =>
            /\ pc[c] = "returned"
            /\ result[c].value.items = <<>>
            /\ result[c].error.name = "none"

C15_Witness ==
    \E c \in Calls :
        /\ HasBody(c) /\ op[c] = "getDetailImage"
        /\ ItemsOf(c).kind = "object" /\ ItemsOf(c).item.kind = "absent"
        /\ pc[c] = "returned" /\ result[c].value.items = <<>>

----------------------------------------------------------------------------
(* The outgoing query *)

\* the query of the request a call issued
QueryOf(c) == Val(url[c]).query

\* a query value as it was before serialisation wrote its spaces as "+"
Unplus(q) == [i \in DOMAIN q |-> IF q[i] = "+" THEN " " ELSE q[i]]

\* t is s without its leading and trailing whitespace
IsTrimOf(t, s) ==
    /\ t = <<>> \/ (t[1] # " " /\ t[Len(t)] # " ")
    /\ \E i \in 0..Len(s) :
          /\ i + Len(t) <= Len(s)
          /\ \A k \in 1..Len(t) : s[i + k] = t[k]
          /\ \A k \in 1..Len(s) : (k <= i \/ k > i + Len(t)) => s[k] = " "

IdOps == {"getDetailCommon", "getDetailIntro", "getDetailImage", "getDetailPetTour"}

\* the required inputs are in the query, trimmed
RequiredTrimmed(c) ==
    /\ op[c] \in IdOps =>
           IsTrimOf(Unplus(QueryOf(c)["contentId"]), Val(args[c].contentId))
    /\ op[c] = "getDetailIntro" =>
           IsTrimOf(Unplus(QueryOf(c)["contentTypeId"]), Val(args[c].contentTypeId))
    /\ op[c] = "searchKeyword" =>
           IsTrimOf(Unplus(QueryOf(c)["keyword"]), Val(args[c].keyword))

\* the optional filters an operation takes
FiltersOf(o) ==
    IF o = "getAreaCode" THEN {"areaCode"}
    ELSE IF o \in {"getAreaBasedList", "searchKeyword"} THEN FilterNames
    ELSE {}

\* C16 as stated: every identifier or keyword input, required or optional,
\* is in the query with its leading and trailing whitespace removed.
C16_AllTrimmed ==
    \A c \in Calls :
        url[c] # {} =>
            /\ RequiredTrimmed(c)
            /\ \A n \in FiltersOf(op[c]) :
                   (args[c].filters[n] # {} /\ n \in DOMAIN QueryOf(c)) =>
                       IsTrimOf(Unplus(QueryOf(c)[n]), Val(args[c].filters[n]))

\* C16 amended: the required content id, content-type id and keyword are
\* in the query trimmed; an optional code that is sent is sent as given.
C16_RequiredTrimmed ==
    \A c \in Calls :
        url[c] # {} =>
            /\ RequiredTrimmed(c)
            /\ \A n \in FiltersOf(op[c]) :
                   n \in DOMAIN QueryOf(c) =>
                       Unplus(QueryOf(c)[n]) = Val(args[c].filters[n])

C16_Witness ==
    \E c \in Calls :
        /\ url[c] # {} /\ op[c] = "getDetailIntro"
        /\ args[c].contentId = {<<" ", "1">>} /\ QueryOf(c)["contentId"] = <<"1">>
        /\ args[c].contentTypeId = {<<"1", " ">>} /\ QueryOf(c)["contentTypeId"] = <<"1">>

----------------------------------------------------------------------------
(* Progress: a call that is entered runs to its first await, every fetch   *)
(* eventually completes with some outcome, every backoff timer fires       *)

Start(c) ==
    \/ getAreaCode(c) \/ getAreaBasedList(c) \/ searchKeyword(c) \/ getDetailCommon(c)
    \/ getDetailIntro(c) \/ getDetailImage(c) \/ getDetailPetTour(c)

Fairness ==
    \A c \in {"c1"} :
        /\ WF_vars(Start(c))
        /\ WF_vars(\E o \in Outcomes : fetchSettles(c, o))
        /\ WF_vars(sleepDone(c))

SpecLive == Init /\ [][Next]_vars /\ Fairness

\* C18: every call eventually returns a result or raises a failure, given
\* that every attempt completes and every backoff timer fires.
C18_Terminates == <>(\A c \in Calls : Settled(c))

C18_Witness ==
    \E c \in Calls :
        /\ pc[c] = "returned" /\ data[c] # {}
        /\ fetches[c] = 3 /\ Len(waits[c]) = 2

----------------------------------------------------------------------------
(* Concurrent calls: two invocations in flight, their awaits interleaved   *)

ConcCalls == {"c1", "c2"}

ConcArgs ==
    {NoArgs,
     [NoArgs EXCEPT !.contentId = Some(<<"1">>), !.contentTypeId = Some(<<"1">>),
                    !.keyword = Some(<<"1">>)]}

ConcOutcomes ==
    {NetFail, Http(500, BadJson), Http(200, Envelope("03", Some(<<"M">>), None)),
     Http(200, Envelope(SuccessCode, Some(<<"OK">>), Some(Body(OneItem, NoPage))))}

InitConc ==
    /\ env = PagingEnv
    /\ op \in [ConcCalls -> Ops]
    /\ args \in [ConcCalls -> ConcArgs]
    /\ Fresh(ConcCalls)
    /\ NoCaller

NextConc ==
    \/ \E c \in Calls : getAreaCode(c)
    \/ \E c \in Calls : getAreaBasedList(c)
    \/ \E c \in Calls : searchKeyword(c)
    \/ \E c \in Calls : getDetailCommon(c)
    \/ \E c \in Calls : getDetailIntro(c)
    \/ \E c \in Calls : getDetailImage(c)
    \/ \E c \in Calls : getDetailPetTour(c)
    \/ \E c \in Calls : \E o \in ConcOutcomes : fetchSettles(c, o)
    \/ \E c \in Calls : sleepDone(c)

SpecConc == InitConc /\ [][NextConc]_vars

\* everything the program holds for one call
ComponentsOf(c) ==
    <<pc[c], attempt[c], lastError[c], fetches[c], waits[c], response[c],
      data[c], url[c], result[c]>>

\* one step touches one call
OneCallSteps == \E c \in Calls : \A d \in Calls \ {c} : ComponentsOf(d)' = ComponentsOf(d)

ExpectedWaits(n) == [i \in 1..n |-> pow(2, i - 1) * 1000]

\* the call's counters, waits, last error and result, told from its own
\* attempts alone
OwnOutcome(c) ==
    LET r == tryAttempt(response[c])
        failedNow == response[c] # NoOutcome /\ ~r.ok
    IN  /\ waits[c] = ExpectedWaits(IF pc[c] = "sleeping" THEN fetches[c]
                                    ELSE IF fetches[c] = 0 THEN 0 ELSE fetches[c] - 1)
        /\ attempt[c] = IF fetches[c] = 0 THEN 0
                        ELSE IF Settled(c) /\ failedNow THEN fetches[c]
                        ELSE fetches[c] - 1
        /\ lastError[c] = IF failedNow THEN r.error
                          ELSE IF fetches[c] <= 1 THEN NoError
                          ELSE lastError[c]
        /\ Settled(c) =>
              result[c] = IF fetches[c] = 0
                             THEN Raised(requestOf(op[c], env, args[c]).error)
                          ELSE IF failedNow
                             THEN resultOf(op[c], args[c], Thrown(r.error))
                          ELSE resultOf(op[c], args[c], r)

\* C19: with calls interleaved, every step changes the state of one call
\* only, and each call's attempt count, waits, last error and result are
\* those its own attempts' outcomes give.
C19_Independent ==
    /\ [](\A c \in ConcCalls : OwnOutcome(c))
    /\ [][OneCallSteps]_vars

\* both calls are between attempts, one after its second failure, the other
\* after its first, each holding its own error
C19_Witness ==
    /\ DOMAIN pc = ConcCalls
    /\ pc["c1"] = "sleeping" /\ pc["c2"] = "sleeping"
    /\ attempt["c1"] = 1 /\ attempt["c2"] = 0
    /\ lastError["c1"] = NetworkError
    /\ lastError["c2"].statusCode = {500}

----------------------------------------------------------------------------
(* The error of an exhausted call *)

\* the call raised after its last attempt failed
Exhausted(c) == AllFailed(c) /\ pc[c] = "raised" /\ fetches[c] = maxRetries

\* C20: the error raised after the retries are exhausted is that of the
\* last failing attempt: a non-2xx response gives its status code and no
\* application code; a 2xx envelope with a code other than "0000" gives its
\* resultCode and its message (the placeholder when the message is empty)
\* and no status code.
C20_LastAttemptData ==
    \A c \in Calls :
        Exhausted(c) =>
            LET o == response[c]
                e == result[c].error
            IN  /\ IsHttpFailure(o) =>
                      /\ e.name = "TourApiError"
                      /\ e.statusCode = {o.status}
                      /\ e.detail = String(o.status)
                      /\ e.apiErrorCode = {}
                /\ (IsEnvelopeFailure(o) /\ ~IsHttpFailure(o)) =>
                      /\ e.name = "TourApiError"
                      /\ e.apiErrorCode = o.payload.resultCode
                      /\ e.detail = IF o.payload.resultMsg \in {{}, {<<>>}}
                                       THEN <<"Unknown API error">>
                                       ELSE Val(o.payload.resultMsg)
                      /\ e.statusCode = {}

C20_Witness ==
    \E c \in Calls :
        /\ Exhausted(c)
        /\ response[c] = Http(201, Envelope("SERVICE_ERROR", Some(<<"M">>), None))
        /\ result[c].error.apiErrorCode = {"SERVICE_ERROR"}
        /\ result[c].error.detail = <<"M">>

----------------------------------------------------------------------------
(* Callers invoke operations: a new call runs from its entry to its first  *)
(* await within the caller's step.  new maps each new call to the          *)
(* operation and the arguments it is called with.                          *)

Invoke(new) ==
    LET req(c) == requestOf(new[c].op, env, new[c].args)
        passed(c) == req(c).error = NoError
    IN  /\ op' = [c \in DOMAIN new |-> new[c].op] @@ op
        /\ args' = [c \in DOMAIN new |-> new[c].args] @@ args
        /\ pc' = [c \in DOMAIN new |-> IF passed(c) THEN "fetching" ELSE "raised"] @@ pc
        /\ attempt' = [c \in DOMAIN new |-> 0] @@ attempt
        /\ lastError' = [c \in DOMAIN new |-> NoError] @@ lastError
        /\ fetches' = [c \in DOMAIN new |-> IF passed(c) THEN 1 ELSE 0] @@ fetches
        /\ waits' = [c \in DOMAIN new |-> <<>>] @@ waits
        /\ response' = [c \in DOMAIN new |-> NoOutcome] @@ response
        /\ data' = [c \in DOMAIN new |-> None] @@ data
        /\ url' = [c \in DOMAIN new |-> IF passed(c) THEN req(c).url ELSE None] @@ url
        /\ result' = [c \in DOMAIN new |->
                         IF passed(c) THEN Pending ELSE Raised(req(c).error)] @@ result
        /\ UNCHANGED env

callVars == <<env, op, args, pc, attempt, lastError, fetches, waits, response,
              data, url, result>>

----------------------------------------------------------------------------
(* getRegionStats (stats-api): the area list, one getAreaBasedList call    *)
(* per area awaited jointly, and the sort                                  *)

\* the call of getAreaCode; the call for areas[i] is call i
AreasCall == 0

\* area.code and area.name of an item of the area list
codeOf(o) == IF o = "o1" THEN <<"1">> ELSE <<"1", "1">>
nameOf(o) == o

NoEntry == [code |-> <<>>, name |-> NoObj, count |-> -1]
RegionStats(o, n) == [code |-> codeOf(o), name |-> nameOf(o), count |-> n]

AreaTotals == {None, Some(3), Some(37)}

\* what the upstream answers to the two operations of the aggregation
StatsOutcomes(o) ==
    IF o = "getAreaCode"
        THEN {NetFail} \cup
             {Http(200, Envelope(SuccessCode, Some(<<"OK">>),
                                 Some(Body([kind |-> "object", item |-> ItemArray(s)], NoPage)))) :
                 s \in SeqsUpTo(Objs, MaxItems)}
        ELSE {NetFail} \cup
             {Http(200, Envelope(SuccessCode, Some(<<"OK">>),
                                 Some(Body(OneItem, [totalCount |-> t, numOfRows |-> Some(1),
                                                     pageNo |-> Some(1)])))) :
                 t \in AreaTotals}

\* stats.sort((a, b) => b.count - a.count): Array.prototype.sort is stable
RECURSIVE insertByCount(_, _)
insertByCount(s, e) ==
    IF s = <<>> THEN <<e>>
    ELSE IF e.count - Head(s).count > 0 THEN <<e>> \o s
    ELSE <<Head(s)>> \o insertByCount(Tail(s), e)

RECURSIVE sortByCount(_)
sortByCount(s) ==
    IF s = <<>> THEN <<>>
    ELSE insertByCount(sortByCount(SubSeq(s, 1, Len(s) - 1)), s[Len(s)])

\* variant: the values are gathered in the order the promises settle
promiseAllInSettleOrder(values, i, v) ==
    LET k == CHOOSE j \in DOMAIN values :
                 values[j] = NoEntry /\ \A h \in 1..(j - 1) : values[h] # NoEntry
    IN  [values EXCEPT ![k] = v]

\* Promise.all: the value of promise i is element i of the result
promiseAll(values, i, v) == [values EXCEPT ![i] = v]

\* getRegionStats is called: getAreaCode() runs to its fetch
getRegionStats ==
    /\ stats.state = "idle"
    /\ Invoke([c \in {AreasCall} |-> [op |-> "getAreaCode", args |-> NoArgs]])
    /\ stats' = [stats EXCEPT !.state = "areas"]
    /\ UNCHANGED <<route, view, button>>

\* await getAreaCode() settles: the outer catch rethrows, or areas.map
\* starts one getAreaBasedList call per area
areasSettled ==
    /\ stats.state = "areas"
    /\ Settled(AreasCall)
    /\ IF pc[AreasCall] = "raised"
          THEN /\ stats' = [stats EXCEPT !.state = "raised", !.error = result[AreasCall].error]
               /\ UNCHANGED callVars
          ELSE LET areas == result[AreasCall].value.items IN
               /\ Invoke([i \in 1..Len(areas) |->
                            [op |-> "getAreaBasedList",
                             args |-> [NoArgs EXCEPT
                                          !.filters = [NoFilters EXCEPT
                                                          !["areaCode"] = Some(codeOf(areas[i]))],
                                          !.numOfRows = Some(1), !.pageNo = Some(1)]]])
               /\ stats' = [stats EXCEPT !.state = "all",
                                         !.values = [i \in 1..Len(areas) |-> NoEntry]]
    /\ UNCHANGED <<route, view, button>>

\* the call for area i settled: the callback returns the area's entry, with
\* count 0 from its catch
areaSettled(i) ==
    /\ stats.state = "all"
    /\ i \in DOMAIN stats.values
    /\ stats.values[i] = NoEntry
    /\ Settled(i)
    /\ LET area == result[AreasCall].value.items[i]
           count == IF pc[i] = "returned" THEN result[i].value.totalCount ELSE 0
       IN  stats' = [stats EXCEPT !.values = promiseAll(@, i, RegionStats(area, count))]
    /\ UNCHANGED callVars
    /\ UNCHANGED <<route, view, button>>

\* await Promise.all(statsPromises) resolves: sort and return
allSettled ==
    /\ stats.state = "all"
    /\ \A i \in DOMAIN stats.values : stats.values[i] # NoEntry
    /\ stats' = [stats EXCEPT !.state = "returned", !.value = sortByCount(stats.values)]
    /\ UNCHANGED callVars
    /\ UNCHANGED <<route, view, button>>

InitStats ==
    /\ env = PagingEnv
    /\ op = <<>> /\ args = <<>>
    /\ Fresh({})
    /\ NoCaller

NextStats ==
    \/ getRegionStats
    \/ areasSettled
    \/ \E i \in Calls : areaSettled(i)
    \/ allSettled
    \/ \E c \in Calls : \E o \in StatsOutcomes(op[c]) : fetchSettles(c, o)
    \/ \E c \in Calls : sleepDone(c)

SpecStats == InitStats /\ [][NextStats]_vars

\* the areas getAreaCode returned, and the entry each area's own call gives
AreasOf == result[AreasCall].value.items
EntryOf(i) ==
    [code |-> codeOf(AreasOf[i]), name |-> nameOf(AreasOf[i]),
     count |-> IF pc[i] = "returned" THEN result[i].value.totalCount ELSE 0]

\* r lists the entries of the areas by count, largest first, areas of equal
\* count in the order of the area list: there is one such list
IsRankingOf(r, n) ==
    /\ Len(r) = n
    /\ \E p \in [1..n -> 1..n] :
          /\ \A k, l \in 1..n : k # l => p[k] # p[l]
          /\ \A k \in 1..n : r[k] = EntryOf(p[k])
          /\ \A k, l \in 1..n :
                k < l => \/ r[k].count > r[l].count
                         \/ r[k].count = r[l].count /\ p[k] < p[l]

\* C21: getRegionStats returns one entry per area of getAreaCode, sorted by
\* count in non-increasing order, the same list whatever the order in which
\* the per-area calls complete; a failed per-area call counts 0 and does not
\* fail the aggregation, which raises only the failure of getAreaCode.
C21_RegionStats ==
    /\ stats.state = "returned" =>
          /\ pc[AreasCall] = "returned"
          /\ IsRankingOf(stats.value, Len(AreasOf))
          /\ \A i \in 1..Len(AreasOf) :
                pc[i] = "raised" => \E k \in 1..Len(stats.value) :
                                       stats.value[k] = RegionStats(AreasOf[i], 0)
    /\ stats.state = "raised" =>
          /\ pc[AreasCall] = "raised"
          /\ stats.error = result[AreasCall].error
    /\ stats.state = "all" => pc[AreasCall] = "returned"

\* two areas with equal counts, the call of the second area completed before
\* the call of the first failed, and the aggregation returned
C21_Witness ==
    /\ stats.state = "returned"
    /\ Len(AreasOf) = 2 /\ AreasOf[1] # AreasOf[2]
    /\ pc[1] = "raised" /\ pc[2] = "returned"
    /\ fetches[2] = 1
    /\ result[2].value.totalCount = 0
    /\ stats.value = <<RegionStats(AreasOf[1], 0), RegionStats(AreasOf[2], 0)>>

----------------------------------------------------------------------------
(* The first successful attempt *)

\* a 2xx response carrying an envelope whose resultCode is "0000"
IsSuccess(o) ==
    /\ o.net = "response" /\ ok(o.status)
    /\ o.payload.shape = "envelope"
    /\ o.payload.resultCode = {SuccessCode}

\* the call has its document: nothing is fetched or waited for any more
StopsAtSuccess ==
    \A c \in Calls :
        data[c] # None =>
            /\ fetches'[c] = fetches[c]
            /\ waits'[c] = waits[c]
            /\ attempt'[c] = attempt[c]
            /\ response'[c] = response[c]

\* C22: a call whose attempt k is the first answered 2xx with "0000" has
\* made exactly k attempts (k <= 3), waited 2^0 .. 2^(k-2) seconds before
\* it, and fetches and waits nothing after it.
C22_FirstSuccess ==
    /\ [](\A c \in Calls :
            IsSuccess(response[c]) =>
                /\ Settled(c)
                /\ data[c] = {response[c].payload}
                /\ fetches[c] \in 1..3
                /\ attempt[c] = fetches[c] - 1
                /\ Len(waits[c]) = fetches[c] - 1
                /\ \A i \in DOMAIN waits[c] : waits[c][i] = pow(2, i - 1) * 1000)
    /\ [][StopsAtSuccess]_vars

C22_Witness ==
    \E c \in Calls :
        /\ IsSuccess(response[c]) /\ pc[c] = "returned"
        /\ fetches[c] = 2 /\ waits[c] = <<1000>>
        /\ lastError[c] # NoError

----------------------------------------------------------------------------
(* The not-found failure *)

\* a document with a body that holds no item
NoItemIn(d) ==
    /\ d.body # {}
    /\ LET items == Val(d.body).items IN
           \/ items.kind # "object"
           \/ items.item.kind = "absent"
           \/ items.item.kind = "array" /\ items.item.objs = <<>>

\* the last attempt of a detail call was answered with a successful
\* envelope that holds no item
AnsweredNoItem(c) ==
    /\ op[c] \in {"getDetailCommon", "getDetailIntro"}
    /\ IsSuccess(response[c])
    /\ NoItemIn(response[c].payload)

\* C23: when getDetailCommon or getDetailIntro is answered with a
\* successful envelope without items, the call raises not-found right after
\* that attempt: no wait follows it, and nothing of the call changes
\* afterwards, so there is no further attempt.
C23_NotFoundNotRetried ==
    /\ [](\A c \in Calls :
            AnsweredNoItem(c) =>
                /\ pc[c] = "raised"
                /\ result[c].error.text \in {"Tour detail not found for contentId: ",
                                             "Tour intro not found for contentId: "}
                /\ fetches[c] = attempt[c] + 1
                /\ Len(waits[c]) = fetches[c] - 1)
    /\ [][\A c \in Calls : AnsweredNoItem(c) => ComponentsOf(c)' = ComponentsOf(c)]_vars

C23_Witness ==
    \E c \in Calls :
        /\ AnsweredNoItem(c) /\ op[c] = "getDetailIntro"
        /\ pc[c] = "raised" /\ fetches[c] = 1 /\ waits[c] = <<>>

----------------------------------------------------------------------------
(* The paging values of a result *)

\* C24: whatever numOfRows and pageNo the caller supplies (absent, 0,
\* negative or positive), a paged result has numOfRows >= 1, pageNo >= 1
\* and totalPages >= 0, and totalPages is not computed with a zero divisor.
C24_PagingSane ==
    \A c \in Calls :
        /\ op[c] \in {"getAreaBasedList", "searchKeyword"} => rowsOf(args[c]) # 0
        /\ ReturnedPage(c) =>
              /\ result[c].value.numOfRows >= 1
              /\ result[c].value.pageNo >= 1
              /\ result[c].value.totalPages >= 0

----------------------------------------------------------------------------
(* The proxy route GET /api/tour (src/app/api/tour/route.ts)               *)

Endpoints == {"areaCode2", "areaBasedList2", "searchKeyword2", "detailCommon2",
              "detailIntro2", "detailImage2", "detailPetTour2"}

\* the switch of the handler: the operation each endpoint calls
operationOf(e) ==
    CASE e = "areaCode2" -> "getAreaCode"
      [] e = "areaBasedList2" -> "getAreaBasedList"
      [] e = "searchKeyword2" -> "searchKeyword"
      [] e = "detailCommon2" -> "getDetailCommon"
      [] e = "detailIntro2" -> "getDetailIntro"
      [] e = "detailImage2" -> "getDetailImage"
      [] e = "detailPetTour2" -> "getDetailPetTour"

\* a request that has arrived and is not handled yet
Request(e, p) ==
    [state |-> "request", endpoint |-> e, params |-> p, status |-> 0, success |-> "none"]

Requests ==
    {Request(e, NoParams) : e \in {None, Some(""), Some("other")}}
        \cup {Request(Some("areaCode2"), [NoParams EXCEPT !.areaCode = a]) : a \in OptStrs}
        \cup {Request(Some("areaBasedList2"),
                      [NoParams EXCEPT !.areaCode = a, !.contentTypeId = t]) :
                 a \in FilterVals \cup {None}, t \in FilterVals \cup {None}}
        \cup {Request(Some("searchKeyword2"), [NoParams EXCEPT !.keyword = k]) : k \in OptStrs}
        \cup {Request(Some(e), [NoParams EXCEPT !.contentId = i]) :
                 e \in {"detailCommon2", "detailImage2", "detailPetTour2"}, i \in OptStrs}
        \cup {Request(Some("detailIntro2"),
                      [NoParams EXCEPT !.contentId = i, !.contentTypeId = t]) :
                 i \in OptStrs, t \in OptStrs}

\* searchParams.get(name) || undefined
orUndefined(x) == IF TruthyStr(x) THEN x ELSE None

\* the arguments the handler passes to the operation
routeArgs(e, p) ==
    CASE e = "areaCode2" ->
            [NoArgs EXCEPT !.filters = [NoFilters EXCEPT !["areaCode"] = orUndefined(p.areaCode)]]
      [] e = "areaBasedList2" ->
            [NoArgs EXCEPT !.filters =
                [NoFilters EXCEPT !["areaCode"] = orUndefined(p.areaCode),
                                  !["contentTypeId"] = orUndefined(p.contentTypeId)]]
      [] e = "searchKeyword2" -> [NoArgs EXCEPT !.keyword = p.keyword]
      [] e = "detailIntro2" ->
            [NoArgs EXCEPT !.contentId = p.contentId, !.contentTypeId = p.contentTypeId]
      [] OTHER -> [NoArgs EXCEPT !.contentId = p.contentId]

\* the handler's own checks: !endpoint, the default case, !keyword,
\* !contentId, !contentId || !contentTypeId
rejected(e, p) ==
    \/ e = None \/ Val(e) = ""
    \/ Val(e) \notin Endpoints
    \/ Val(e) = "searchKeyword2" /\ ~TruthyStr(p.keyword)
    \/ Val(e) \in {"detailCommon2", "detailIntro2", "detailImage2", "detailPetTour2"}
          /\ ~TruthyStr(p.contentId)
    \/ Val(e) = "detailIntro2" /\ ~TruthyStr(p.contentTypeId)

\* variant: every failure is answered 500
statusAlways500(error) == 500

\* the status of the catch block: error.statusCode || 500 for a
\* TourApiError, 500 for any other error
statusOf(error) ==
    IF error.name = "TourApiError" /\ TruthyNum(error.statusCode)
        THEN Val(error.statusCode) ELSE 500

\* the handler runs up to its first await or to its early return
GET ==
    /\ route.state = "request"
    /\ IF rejected(route.endpoint, route.params)
          THEN /\ route' = [route EXCEPT !.state = "responded", !.status = 400]
               /\ UNCHANGED callVars
          ELSE /\ Invoke([c \in {"c1"} |->
                            [op |-> operationOf(Val(route.endpoint)),
                             args |-> routeArgs(Val(route.endpoint), route.params)]])
               /\ route' = [route EXCEPT !.state = "awaiting"]
    /\ UNCHANGED <<stats, view, button>>

\* the awaited operation settled: the 200 response, or the catch block
respond ==
    /\ route.state = "awaiting"
    /\ Settled("c1")
    /\ route' = IF pc["c1"] = "returned"
                   THEN [route EXCEPT !.state = "responded", !.status = 200,
                                      !.success = "true"]
                   ELSE [route EXCEPT !.state = "responded",
                                      !.status = statusOf(result["c1"].error),
                                      !.success = "false"]
    /\ UNCHANGED callVars
    /\ UNCHANGED <<stats, view, button>>

RouteEnvs == {PagingEnv, [TOUR_API_KEY |-> None, NEXT_PUBLIC_TOUR_API_KEY |-> None]}

RouteOutcomes ==
    {NetFail, Http(404, BadJson), Http(200, BadJson),
     Http(500, Envelope("SERVICE_ERROR", Some(<<"M">>), None)),
     Http(200, Envelope("03", Some(<<"M">>), None)),
     Http(200, Envelope("SERVICE_ERROR", Some(<<"M">>), None)),
     Http(200, Envelope(SuccessCode, Some(<<"OK">>), Some(Body(OneItem, NoPage)))),
     Http(200, Envelope(SuccessCode, Some(<<"OK">>),
                        Some(Body([kind |-> "absent", item |-> ItemAbsent], NoPage))))}

InitRoute ==
    /\ env \in RouteEnvs
    /\ op = <<>> /\ args = <<>>
    /\ Fresh({})
    /\ route \in Requests
    /\ stats = NoStats /\ view = NoView /\ button = NoButton

NextRoute ==
    \/ GET
    \/ respond
    \/ \E c \in Calls : \E o \in RouteOutcomes : fetchSettles(c, o)
    \/ \E c \in Calls : sleepDone(c)

SpecRoute == InitRoute /\ [][NextRoute]_vars

\* a required parameter of the named endpoint is missing or blank
RequiredBlank(e, p) ==
    \/ e = "searchKeyword2" /\ IsBlank(p.keyword)
    \/ e \in {"detailCommon2", "detailIntro2", "detailImage2", "detailPetTour2"}
          /\ IsBlank(p.contentId)
    \/ e = "detailIntro2" /\ IsBlank(p.contentTypeId)

BadRequest ==
    \/ route.endpoint = None
    \/ Val(route.endpoint) \notin Endpoints
    \/ RequiredBlank(Val(route.endpoint), route.params)

\* C25: a request without endpoint, with an unknown endpoint, or with a
\* required parameter of its endpoint missing or blank is answered 400, and
\* no client operation is invoked for it (so no upstream request is made).
C25_BadRequest ==
    (route.state \in {"awaiting", "responded"} /\ BadRequest) =>
        /\ route.state = "responded"
        /\ route.status = 400
        /\ Calls = {}

\* C26: the route answers 200 with success true exactly when the operation
\* it invoked returned a value; when the operation raised, success is false
\* and the status is the HTTP status code the error carries, 500 when it
\* carries none.
C26_RouteStatus ==
    route.state = "responded" =>
        /\ (route.status = 200 /\ route.success = "true")
              <=> (Calls # {} /\ pc["c1"] = "returned")
        /\ route.status = 200 <=> route.success = "true"
        /\ (Calls # {} /\ pc["c1"] = "raised") =>
              LET error == result["c1"].error IN
              /\ route.success = "false"
              /\ route.status = IF error.statusCode # {} THEN Val(error.statusCode) ELSE 500

\* the upstream answered 404 three times: the response carries 404
C26_Witness ==
    /\ route.state = "responded"
    /\ route.success = "false" /\ route.status = 404
    /\ fetches["c1"] = 3
    /\ response["c1"] = Http(404, BadJson)

----------------------------------------------------------------------------
(* TourMapView with InfiniteScroll (tour-map-view.tsx, infinite-scroll.tsx) *)
(* and the page it loads from, /api/tour/infinite.  view.q numbers the      *)
(* search parameters in force, view.totals[q] is the totalCount of search   *)
(* q, an item is told by its search and its rank in that search's results.  *)

\* params.set("numOfRows", "20"), and numOfRows: 20 of the first page
LoadRows == 20

Min(a, b) == IF a < b THEN a ELSE b
Max(a, b) == IF a > b THEN a ELSE b

\* the items of page p of a search with total results
pageItems(q, p, total) ==
    [i \in 1..Max(0, Min(LoadRows, total - LoadRows * (p - 1))) |->
        [q |-> q, rank |-> LoadRows * (p - 1) + i]]

\* the totalCount prop
totalCount(v) == v.totals[v.q]

\* hasMore = enableInfiniteScroll && tours.length < totalCount, with
\* enableInfiniteScroll={true}
hasMore(v) == Len(v.tours) < totalCount(v)

\* the component as first rendered for search q
Mounted(q, totals, pageNo) ==
    [state |-> "mounted", q |-> q, totals |-> totals, initialPageNo |-> pageNo,
     tours |-> pageItems(q, pageNo, totals[q]), currentPage |-> pageNo,
     isLoading |-> FALSE, isIntersecting |-> FALSE, requests |-> <<>>]

ViewTotals == {0, 25, 45}
ViewPages == {1, 2}

\* the IntersectionObserver callback: the sentinel enters or leaves the viewport
intersect ==
    /\ view.state = "mounted"
    /\ hasMore(view)
    /\ view' = [view EXCEPT !.isIntersecting = ~@]
    /\ UNCHANGED callVars
    /\ UNCHANGED <<stats, route, button>>

\* the effect of InfiniteScroll calls onLoadMore, which runs to its fetch
loadMore ==
    /\ view.state = "mounted"
    /\ view.isIntersecting /\ hasMore(view) /\ ~view.isLoading
    /\ ~(view.isLoading \/ Len(view.tours) >= totalCount(view))
    /\ view.currentPage < MaxPage
    /\ view' = [view EXCEPT !.isLoading = TRUE,
                            !.requests = Append(@, [q |-> view.q,
                                                    page |-> view.currentPage + 1])]
    /\ UNCHANGED callVars
    /\ UNCHANGED <<stats, route, button>>

Remove(s, i) == SubSeq(s, 1, i - 1) \o SubSeq(s, i + 1, Len(s))

\* setTours(prev => [...prev, ...newTours]); setCurrentPage(prev => prev + 1);
\* finally setIsLoading(false)
appended(v, newTours) ==
    [v EXCEPT !.tours = @ \o newTours, !.currentPage = @ + 1, !.isLoading = FALSE]

\* request i is answered 200 with the page it asked for
loaded(i) ==
    /\ view.state = "mounted"
    /\ i \in DOMAIN view.requests
    /\ LET r == view.requests[i]
           newTours == pageItems(r.q, r.page, view.totals[r.q])
       IN  view' = [appended(view, newTours) EXCEPT !.requests = Remove(view.requests, i)]
    /\ UNCHANGED callVars
    /\ UNCHANGED <<stats, route, button>>

\* request i is rejected or answered with a non-2xx status: catch, finally
failed(i) ==
    /\ view.state = "mounted"
    /\ i \in DOMAIN view.requests
    /\ view' = [view EXCEPT !.isLoading = FALSE, !.requests = Remove(@, i)]
    /\ UNCHANGED callVars
    /\ UNCHANGED <<stats, route, button>>

\* the search parameters change: new props arrive and the effect resets
\* the list and the page
searchParamsChange(total, pageNo) ==
    /\ view.state = "mounted"
    /\ view.q < MaxSearches
    /\ LET q == view.q + 1
           totals == Append(view.totals, total)
       IN  view' = [view EXCEPT !.q = q, !.totals = totals, !.initialPageNo = pageNo,
                                !.tours = pageItems(q, pageNo, total),
                                !.currentPage = pageNo]
    /\ UNCHANGED callVars
    /\ UNCHANGED <<stats, route, button>>

InitView ==
    /\ env = PagingEnv
    /\ op = <<>> /\ args = <<>>
    /\ Fresh({})
    /\ \E total \in ViewTotals : \E pageNo \in ViewPages :
          view = Mounted(1, <<total>>, pageNo)
    /\ stats = NoStats /\ route = NoRoute /\ button = NoButton

NextView ==
    \/ intersect
    \/ loadMore
    \/ \E i \in 1..2 : loaded(i)
    \/ \E i \in 1..2 : failed(i)
    \/ \E total \in ViewTotals : \E pageNo \in ViewPages : searchParamsChange(total, pageNo)

SpecView == InitView /\ [][NextView]_vars

\* pages from..to of search q, one after the other
RECURSIVE pagesOf(_, _, _, _)
pagesOf(q, from, to, total) ==
    IF from > to THEN <<>>
    ELSE pageItems(q, from, total) \o pagesOf(q, from + 1, to, total)

\* C27: at most one load-more request is in flight; a load asks for page
\* currentPage + 1, appends it and adds one to currentPage, so the list is
\* the pages initialPageNo .. currentPage, each once and none skipped; a
\* failed load changes neither and isLoading is false again whenever no
\* request is in flight.
C27_LoadMore ==
    view.state = "mounted" =>
        /\ Len(view.requests) <= 1
        /\ view.isLoading <=> view.requests # <<>>
        /\ view.tours = pagesOf(view.q, view.initialPageNo, view.currentPage,
                                totalCount(view))

\* C28: once the search parameters changed and the list was reset, every
\* item of the list is a result of the search in force.
C28_ActiveSearchOnly ==
    view.state = "mounted" =>
        \A i \in DOMAIN view.tours : view.tours[i].q = view.q

----------------------------------------------------------------------------
(* Scrolling to the end: the sentinel stays in the viewport, every request *)
(* is answered with its page, the search does not change                   *)

ScrollTotals == {t \in 0..(LoadRows * MaxPage) : t % 5 = 0}
ScrollPages == {1, 2, 3}

InitScroll ==
    /\ env = PagingEnv
    /\ op = <<>> /\ args = <<>>
    /\ Fresh({})
    /\ \E total \in ScrollTotals : \E pageNo \in ScrollPages :
          view = [Mounted(1, <<total>>, pageNo) EXCEPT !.isIntersecting = TRUE]
    /\ stats = NoStats /\ route = NoRoute /\ button = NoButton

NextScroll ==
    \/ loadMore
    \/ \E i \in 1..2 : loaded(i)

SpecScroll ==
    /\ InitScroll /\ [][NextScroll]_vars
    /\ WF_vars(loadMore)
    /\ WF_vars(\E i \in 1..2 : loaded(i))

\* a request is answered and the list is no longer than it was: the view is
\* back where it asked from, one page further
loadedNothing ==
    /\ view.requests # <<>>
    /\ view'.requests = <<>>
    /\ Len(view'.tours) = Len(view.tours)

\* C29: with the sentinel in view and every request answered, each load
\* brings the list closer to totalCount, hasMore is false after finitely many
\* loads and no request is made from then on.
C29_ScrollEnds ==
    /\ [][~loadedNothing]_vars
    /\ <>[](~hasMore(view) /\ view.requests = <<>>)

-----------------------------------------------------------------------------
(* BookmarkButton: the auth state of useAuth, the three state cells, the   *)
(* look-ups and storage operations in flight, the row of the bookmarks     *)
(* table for this user and content (stored), how the last storage          *)
(* operation settled, and whether the sign-in modal was opened.            *)

UserIds == {None, Some("u1")}

\* useState initial values, before useAuth has loaded
Rendered(stored) ==
    [NoButton EXCEPT !.state = "mounted", !.isLoading = TRUE,
                     !.stored = stored]

\* the effect on [isLoaded, userId, contentId, supabase]: checkBookmark
checkBookmark(b) ==
    IF b.userId = None
    THEN [b EXCEPT !.isBookmarked = FALSE, !.isLoading = FALSE]
    ELSE [b EXCEPT !.isLoading = TRUE, !.checks = @ + 1]

\* useAuth finishes loading, or the user signs in or out; the effect runs
authChange(userId) ==
    /\ button.state = "mounted"
    /\ ~button.isLoaded \/ button.userId # userId
    /\ userId # None => button.checks < MaxChecks
    /\ button' = checkBookmark([button EXCEPT !.isLoaded = TRUE,
                                              !.userId = userId,
                                              !.signIn = FALSE])
    /\ UNCHANGED <<callVars, stats, route, view>>

\* getBookmark settles: the row or null; a thrown error counts as no row
checkSettles(found) ==
    /\ button.checks > 0
    /\ button' = [button EXCEPT !.isBookmarked = found /\ button.stored,
                                !.isLoading = FALSE,
                                !.checks = @ - 1]
    /\ UNCHANGED <<callVars, stats, route, view>>

\* what is rendered: the disabled placeholder, the sign-in button, or the
\* toggle button, disabled while loading or toggling
enabled(b) ==
    /\ b.isLoaded
    /\ b.userId # None
    /\ ~(b.isLoading \/ b.isToggling)

\* a click on the button that SignInButton wraps
signInClick ==
    /\ button.state = "mounted"
    /\ button.isLoaded
    /\ button.userId = None
    /\ ~button.signIn
    /\ button' = [button EXCEPT !.signIn = TRUE]
    /\ UNCHANGED <<callVars, stats, route, view>>

\* handleToggle up to its await
handleToggle ==
    /\ button.state = "mounted"
    /\ enabled(button)
    /\ button.userId # None
    /\ button' = [button EXCEPT
                    !.isToggling = TRUE,
                    !.toggles = Append(@, IF button.isBookmarked
                                          THEN "removeBookmark"
                                          ELSE "addBookmark")]
    /\ UNCHANGED <<callVars, stats, route, view>>

\* variant: the flag follows the operation whether or not it succeeded
toggleSettlesEitherWay(i, succeeded) ==
    /\ i \in DOMAIN button.toggles
    /\ button' = [button EXCEPT
                    !.toggles = Remove(@, i),
                    !.settled = IF succeeded THEN "ok" ELSE "error",
                    !.stored = IF succeeded THEN button.toggles[i] = "addBookmark"
                                     ELSE @,
                    !.isBookmarked = button.toggles[i] = "addBookmark",
                    !.isToggling = FALSE]
    /\ UNCHANGED <<callVars, stats, route, view>>

\* addBookmark or removeBookmark settles and handleToggle runs to its end
toggleSettles(i, succeeded) ==
    /\ i \in DOMAIN button.toggles
    /\ button' = [button EXCEPT
                    !.toggles = Remove(@, i),
                    !.settled = IF succeeded THEN "ok" ELSE "error",
                    !.stored = IF succeeded THEN button.toggles[i] = "addBookmark"
                                     ELSE @,
                    !.isBookmarked = IF succeeded
                                     THEN button.toggles[i] = "addBookmark"
                                     ELSE @,
                    !.isToggling = FALSE]
    /\ UNCHANGED <<callVars, stats, route, view>>

InitButton ==
    /\ env = PagingEnv
    /\ op = <<>> /\ args = <<>>
    /\ Fresh({})
    /\ \E stored \in BOOLEAN : button = Rendered(stored)
    /\ stats = NoStats /\ route = NoRoute /\ view = NoView

NextButton ==
    \/ \E userId \in UserIds : authChange(userId)
    \/ \E found \in BOOLEAN : checkSettles(found)
    \/ signInClick
    \/ handleToggle
    \/ \E i \in 1..2 : \E succeeded \in BOOLEAN : toggleSettles(i, succeeded)

SpecButton == InitButton /\ [][NextButton]_vars

\* a step that starts a toggle, and a step that ends one
toggleStarts == Len(button'.toggles) > Len(button.toggles)
toggleEnds == Len(button'.toggles) < Len(button.toggles)

\* C30: a toggle starts only for a signed-in user while none is in
\* progress, and starts exactly one storage operation without touching the
\* flag; when the operation settles isToggling is false again, and the flag
\* is the operation's target if it succeeded and what it was if it failed;
\* isToggling is true exactly while the operation is in flight.
C30_Toggle ==
    /\ [](/\ Len(button.toggles) <= 1
          /\ button.isToggling <=> button.toggles # <<>>)
    /\ [][/\ toggleStarts =>
               /\ button.userId # None
               /\ ~button.isToggling
               /\ button'.isBookmarked = button.isBookmarked
               /\ button'.stored = button.stored
          /\ toggleEnds =>
               /\ ~button'.isToggling
               /\ button'.settled = "ok" =>
                     /\ button'.isBookmarked
                           = (button.toggles[1] = "addBookmark")
                     /\ button'.stored = button'.isBookmarked
               /\ button'.settled = "error" =>
                     /\ button'.isBookmarked = button.isBookmarked
                     /\ button'.stored = button.stored
          /\ button.userId = None /\ ~toggleEnds =>
               /\ button'.toggles = button.toggles
               /\ button'.stored = button.stored]_vars

\* a removal failed: the flag still shows the bookmark, the button is free
C30_Witness ==
    /\ button.settled = "error"
    /\ button.isBookmarked
    /\ button.stored
    /\ ~button.isToggling
    /\ enabled(button)

====
